---- MODULE Spec2Model ----
(***************************************************************************)
(* SyEI medical-center data model (models/sqlalchemy_models.py).           *)
(*                                                                         *)
(* The program is a declarative relational schema plus a sample-data       *)
(* seeder.  The model is the store the schema declares: twelve tables,     *)
(* their CHECK / UNIQUE / FOREIGN KEY constraints, and the SQL statements  *)
(* (INSERT, UPDATE, DELETE) a client issues against it, each statement     *)
(* atomic: it either applies, together with the referential actions the    *)
(* schema declares (ON DELETE CASCADE / SET NULL), or fails with the       *)
(* violated constraint and leaves the store as it was.  The seeder         *)
(* create_sample_data is modelled statement by statement on top of a       *)
(* session (pending objects, flush at commit).                             *)
(***************************************************************************)
EXTENDS Integers, Sequences, FiniteSets, TLC

VARIABLES
    db,          \* the committed store: table name -> set of rows
    outcome,     \* the last statement issued and how it ended
    pc,          \* create_sample_data: the statement about to run
    pending,     \* the session's pending objects (added, not yet flushed)
    needsRollback, \* the session's transaction was rolled back by a failed flush
    ids,         \* create_sample_data's locals: object -> id assigned at flush
    fault,       \* the collaborator failure (if any) the current run meets
    runs,        \* how many times create_sample_data was called
    module,      \* the import of the models module: not yet, raised, or done
    created,     \* create_tables has made the tables (and drop_tables not removed them)
    issued,      \* table name -> the highest identifier a row of it ever had
    mappers      \* the mappers of the models: not yet configured, refused, or done

vars == <<db, outcome, pc, pending, needsRollback, ids, fault, runs, module, created,
          issued, mappers>>

-----------------------------------------------------------------------------
(* Bounds of the model *)

MaxUsers == 2        \* rows in users, in specialists, in patients
MaxAppointments == 1 \* rows in appointments
MaxBlocks == 1       \* rows in availability_blocks
MaxJoins == 2        \* rows in family_members, in patient_material_assignments
MaxMaterials == 2    \* rows in educational_materials
MaxOwned == 1        \* rows in each table of dependents, where rows are deleted
MaxTime == 2         \* datetimes are 0..MaxTime
MaxRuns == 2         \* calls of create_sample_data

-----------------------------------------------------------------------------
(* Values *)

\* A column left empty (nullable=True columns; identifiers are 1, 2, ...).
NULL == 0

Times == 0..MaxTime

\* UserRole, and User.__table_args__: role.in_([...])
UserRoles == {"Admin", "Specialist", "Patient", "FamilyMember"}

\* AppointmentStatus, and Appointment.__table_args__: status.in_([...])
AppointmentStatuses == {"Pending", "Confirmed", "Canceled", "Completed", "NoShow"}

\* AuditLog.__table_args__: action.in_([...])
AuditActions == {"INSERT", "UPDATE", "DELETE"}

Tables == {"users", "specialists", "patients", "family_members", "appointments",
           "availability_blocks", "medical_records", "templates",
           "educational_materials", "patient_material_assignments",
           "notifications", "audit_logs"}

\* Tables that carry the audit columns created_by / updated_by.
AuditedTables == Tables \ {"notifications", "audit_logs"}

EmptyStore == [t \in Tables |-> {}]

-----------------------------------------------------------------------------
(* The schema's constraints, one entry per declaration *)

FK(t, c, ref, action) == [table |-> t, column |-> c, ref |-> ref, ondelete |-> action]

\* created_by / updated_by = Column(..., ForeignKey('users.id'), nullable=True)
AuditForeignKeys ==
    { FK(t, c, "users", "NO ACTION") : t \in AuditedTables, c \in {"created_by", "updated_by"} }

\* Every other ForeignKey(...) of the module, with its ondelete.
OwnerForeignKeys ==
    { FK("specialists", "user_id", "users", "CASCADE"),
      FK("patients", "user_id", "users", "CASCADE"),
      FK("family_members", "user_id", "users", "CASCADE"),
      FK("family_members", "patient_id", "patients", "CASCADE"),
      FK("appointments", "specialist_id", "specialists", "CASCADE"),
      FK("appointments", "patient_id", "patients", "CASCADE"),
      FK("availability_blocks", "specialist_id", "specialists", "CASCADE"),
      FK("medical_records", "patient_id", "patients", "CASCADE"),
      FK("medical_records", "specialist_id", "specialists", "CASCADE"),
      FK("templates", "specialist_id", "specialists", "SET NULL"),
      FK("educational_materials", "specialist_id", "specialists", "SET NULL"),
      FK("patient_material_assignments", "patient_id", "patients", "CASCADE"),
      FK("patient_material_assignments", "material_id", "educational_materials", "CASCADE"),
      FK("notifications", "user_id", "users", "CASCADE"),
      FK("audit_logs", "user_id", "users", "NO ACTION") }

\* medical_records.patient_id declared without its ondelete.
ForeignKeysRecordsHeld ==
    { IF fk.table = "medical_records" /\ fk.column = "patient_id"
      THEN FK(fk.table, fk.column, fk.ref, "NO ACTION") ELSE fk :
        fk \in OwnerForeignKeys \cup AuditForeignKeys }

\* templates.specialist_id declared ondelete='CASCADE' like its neighbours.
ForeignKeysTemplatesCascade ==
    { IF fk.table = "templates" /\ fk.column = "specialist_id"
      THEN FK(fk.table, fk.column, fk.ref, "CASCADE") ELSE fk :
        fk \in OwnerForeignKeys \cup AuditForeignKeys }

ForeignKeys == OwnerForeignKeys \cup AuditForeignKeys

\* nullable=False on the reference columns (the columns that can hold NULL here).
NotNullColumns ==
    [t \in Tables |->
        CASE t = "specialists" -> {"user_id"}
          [] t = "patients" -> {"user_id"}
          [] t = "family_members" -> {"user_id", "patient_id"}
          [] t = "appointments" -> {"specialist_id", "patient_id"}
          [] t = "availability_blocks" -> {"specialist_id"}
          [] t = "medical_records" -> {"patient_id", "specialist_id"}
          [] t = "patient_material_assignments" -> {"patient_id", "material_id"}
          [] t = "notifications" -> {"user_id"}
          [] OTHER -> {}]

UQ(t, cols, name) == [table |-> t, columns |-> cols, name |-> name]

\* The pair constraints declared on their first column alone.
UniqueConstraintsFirstColumn ==
    { UQ(t, {"id"}, "primary_key") : t \in Tables } \cup
    { UQ("users", {"email"}, "users_email_key"),
      UQ("specialists", {"user_id"}, "specialists_user_id_key"),
      UQ("patients", {"user_id"}, "patients_user_id_key"),
      UQ("family_members", {"user_id"}, "unique_user_patient"),
      UQ("patient_material_assignments", {"patient_id"}, "unique_patient_material") }

\* users.email declared without unique=True.
UniqueConstraintsEmailFree ==
    { UQ(t, {"id"}, "primary_key") : t \in Tables } \cup
    { UQ("specialists", {"user_id"}, "specialists_user_id_key"),
      UQ("patients", {"user_id"}, "patients_user_id_key"),
      UQ("family_members", {"user_id", "patient_id"}, "unique_user_patient"),
      UQ("patient_material_assignments", {"patient_id", "material_id"},
         "unique_patient_material") }

\* primary_key=True on every table, unique=True columns, UniqueConstraint(...).
UniqueConstraints ==
    { UQ(t, {"id"}, "primary_key") : t \in Tables } \cup
    { UQ("users", {"email"}, "users_email_key"),
      UQ("specialists", {"user_id"}, "specialists_user_id_key"),
      UQ("patients", {"user_id"}, "patients_user_id_key"),
      UQ("family_members", {"user_id", "patient_id"}, "unique_user_patient"),
      UQ("patient_material_assignments", {"patient_id", "material_id"},
         "unique_patient_material") }

\* A role list with one entry too many.
ValidUserRoleLax(row) == row.role \in UserRoles \cup {"Doctor"}

\* CheckConstraint(role.in_([...]), name='valid_user_role')
ValidUserRole(row) == row.role \in UserRoles

\* CheckConstraint(status.in_([...]), name='valid_appointment_status')
ValidAppointmentStatus(row) == row.status \in AppointmentStatuses

\* The comparison written >= : an empty interval passes.
ValidAppointmentTimeLax(row) == row.end_datetime >= row.start_datetime

\* CheckConstraint(end_datetime > start_datetime, name='valid_appointment_time')
ValidAppointmentTime(row) == row.end_datetime > row.start_datetime

\* bool(day_of_week >= 1), which Python's `and` asks for at line 212 while the
\* class body of AvailabilityBlock runs.  The answer is the library's:
\* SQLAlchemy raises TypeError (the Boolean value of a clause is not
\* defined), and the import ends there; an expression object without a truth
\* value of its own counts as true.
ClauseBooleans == {"raise", "true"}

\* Whether a Column can be called.  Line 129 rebinds the name `relationship`
\* to a Column inside the class body of FamilyMember, and line 136 calls it:
\* with SQLAlchemy a Column is not callable, the call raises TypeError and
\* the import ends there.
ColumnCallables == BOOLEAN

\* CheckConstraint(day_of_week >= 1 and day_of_week <= 7, name='valid_day_of_week'):
\* Python's `and`, not SQL's AND.  Where the first operand counted as true
\* the expression is its second operand, and that is the constraint of the
\* table; where it raised there is no table (see Import).
ValidDayOfWeek(row) == row.day_of_week <= 7

\* CheckConstraint(end_time > start_time, name='valid_time_range')
ValidTimeRange(row) == row.end_time > row.start_time

\* CheckConstraint(action.in_([...]), name='valid_audit_action')
ValidAuditAction(row) == row.action \in AuditActions

\* The first CHECK constraint of table t that row violates ("ok": none); a
\* table's constraints are tried in the order of their names.
CheckViolation(t, row) ==
    IF t = "users" /\ ~ValidUserRole(row) THEN "valid_user_role"
    ELSE IF t = "appointments" /\ ~ValidAppointmentStatus(row) THEN "valid_appointment_status"
    ELSE IF t = "appointments" /\ ~ValidAppointmentTime(row) THEN "valid_appointment_time"
    ELSE IF t = "availability_blocks" /\ ~ValidDayOfWeek(row) THEN "valid_day_of_week"
    ELSE IF t = "availability_blocks" /\ ~ValidTimeRange(row) THEN "valid_time_range"
    ELSE IF t = "audit_logs" /\ ~ValidAuditAction(row) THEN "valid_audit_action"
    ELSE "ok"

NotNullViolation(t, row) == \E c \in NotNullColumns[t] : row[c] = NULL

\* The UNIQUE constraints of table t that row would break in store d, the row
\* with identifier self (the row being updated) left out of the comparison.
BrokenUniques(d, t, row, self) ==
    { u \in UniqueConstraints :
        /\ u.table = t
        /\ \E r \in d[t] : r.id # self /\ \A c \in u.columns : r[c] = row[c] }

\* The FOREIGN KEY columns of row (of table t) that are set and refer to no row
\* of store d once the row is written in it (a row may refer to itself).
BrokenReferences(d, t, row, self) ==
    LET written == [d EXCEPT ![t] = { r \in @ : r.id # self } \cup {row}]
    IN  { fk \in ForeignKeys :
            /\ fk.table = t
            /\ row[fk.column] # NULL
            /\ \A p \in written[fk.ref] : p.id # row[fk.column] }

Ids(d, t) == { r.id : r \in d[t] }

\* default=generate_uuid: an identifier no row of the table has or ever had.
\* n: table name -> the highest identifier a row of it ever had.
FreshId(n, t) == n[t] + 1

Highest(a, b) == IF a > b THEN a ELSE b

\* n once row is stored in table t.
Issued(n, t, row) == [n EXCEPT ![t] = Highest(@, row.id)]

NoneIssued == [t \in Tables |-> 0]

\* How the store answers a row written to table t (inserted, or replacing the
\* row self): NOT NULL and CHECK are tested on the row itself, then the unique
\* indexes, then the references.
Violation(d, t, row, self) ==
    IF NotNullViolation(t, row) THEN "not_null"
    ELSE IF CheckViolation(t, row) # "ok" THEN CheckViolation(t, row)
    ELSE IF BrokenUniques(d, t, row, self) # {}
         THEN (CHOOSE u \in BrokenUniques(d, t, row, self) :
                  \A v \in BrokenUniques(d, t, row, self) :
                      u.name = "primary_key" \/ v.name # "primary_key").name
    ELSE IF BrokenReferences(d, t, row, self) # {} THEN "foreign_key"
    ELSE "ok"

\* What a statement did: the store after it, the constraint it broke ("ok":
\* none), and the rows its referential actions removed and emptied.
Result(d, e, removed, nulled) == [db |-> d, err |-> e, removed |-> removed, nulled |-> nulled]

Refused(d, e) == Result(d, e, {}, {})

\* INSERT INTO t VALUES row
InsertRow(d, t, row) ==
    LET e == Violation(d, t, row, NULL)
    IN  IF e = "ok" THEN Result([d EXCEPT ![t] = @ \cup {row}], "ok", {}, {})
        ELSE Refused(d, e)

\* The rows of store d that refer, through a foreign key, to row id of table t.
Referrers(d, t, id, actions) ==
    { x \in UNION { { <<fk, r>> : r \in d[fk.table] } : fk \in ForeignKeys } :
        /\ x[1].ref = t
        /\ x[1].ondelete \in actions
        /\ x[2][x[1].column] = id }

\* UPDATE t SET ... WHERE id = old.id, the row becoming new.  A changed key
\* that other rows refer to is refused: no foreign key declares ON UPDATE.
UpdateRow(d, t, old, new) ==
    LET e == Violation(d, t, new, old.id)
    IN  IF e # "ok" THEN Refused(d, e)
        ELSE IF new.id # old.id
                /\ { x \in Referrers(d, t, old.id, {"NO ACTION", "CASCADE", "SET NULL"}) :
                        ~(x[1].table = t /\ x[2].id = old.id) } # {}
             THEN Refused(d, "foreign_key")
        ELSE Result([d EXCEPT ![t] = (@ \ {old}) \cup {new}], "ok", {}, {})

\* The rows that refer directly to a row of D through ON DELETE CASCADE, and
\* no further.
CascadeOnce(d, D) ==
    D \cup { <<x[1].table, x[2].id>> :
               x \in UNION { Referrers(d, p[1], p[2], {"CASCADE"}) : p \in D } }

\* The rows ON DELETE CASCADE removes with the rows D (pairs <<table, id>>).
RECURSIVE CascadeClosure(_, _)
CascadeClosure(d, D) ==
    LET more == { <<x[1].table, x[2].id>> :
                    x \in UNION { Referrers(d, p[1], p[2], {"CASCADE"}) : p \in D } }
    IN  IF more \subseteq D THEN D ELSE CascadeClosure(d, D \cup more)

\* Row r of table t once ON DELETE SET NULL has acted for the removed rows D.
SetNull(t, r, D) ==
    LET cols == { fk.column : fk \in { f \in ForeignKeys :
                      /\ f.table = t
                      /\ f.ondelete = "SET NULL"
                      /\ <<f.ref, r[f.column]>> \in D } }
    IN  [c \in DOMAIN r |-> IF c \in cols THEN NULL ELSE r[c]]

\* Store d without the rows D, the SET NULL references to them emptied.
Remove(d, D) ==
    [t \in Tables |-> { SetNull(t, r, D) : r \in { x \in d[t] : <<t, x.id>> \notin D } }]

\* The delete applied with its cascades, whoever still refers to the rows.
DeleteRowUnchecked(d, t, id) ==
    LET D == CascadeClosure(d, {<<t, id>>})
    IN  Result(Remove(d, D), "ok", D \ {<<t, id>>}, {})

\* DELETE FROM t WHERE id = id.  The cascades run first; the statement fails
\* if a row that stays still refers to a removed row through a foreign key
\* that declares no ondelete.
DeleteRow(d, t, id) ==
    LET D == CascadeClosure(d, {<<t, id>>})
        after == Remove(d, D)
        held == \E p \in D : Referrers(after, p[1], p[2], {"NO ACTION"}) # {}
        nulled == { <<x[1].table, x[2].id>> :
                      x \in UNION { Referrers(d, p[1], p[2], {"SET NULL"}) : p \in D } } \ D
    IN  IF held THEN Refused(d, "foreign_key")
        ELSE Result(after, "ok", D \ {<<t, id>>}, nulled)

-----------------------------------------------------------------------------
(* Statements *)

\* The record of a statement: what it was (the key of the row it addressed,
\* the row it wrote or deleted) and what it did.
Outcome(op, t, key, row, res) ==
    [op |-> op, table |-> t, key |-> key, row |-> row, err |-> res.err,
     removed |-> res.removed, nulled |-> res.nulled]

SessionUnchanged ==
    UNCHANGED <<pc, pending, needsRollback, ids, fault, runs, module, created, mappers>>

\* A statement against the store: res where the tables exist, refused
\* (no such table) where they do not.
Run(res) == IF created THEN res ELSE Refused(db, "no_such_table")

\* One row of table t written through a session of its own: add, commit.
Insert(t, row) ==
    LET res == Run(InsertRow(db, t, row))
    IN  /\ db' = res.db
        /\ issued' = IF res.err = "ok" THEN Issued(issued, t, row) ELSE issued
        /\ outcome' = Outcome("insert", t, row.id, row, res)
        /\ SessionUnchanged

Update(t, old, new) ==
    LET res == Run(UpdateRow(db, t, old, new))
    IN  /\ db' = res.db
        /\ issued' = IF res.err = "ok" THEN Issued(issued, t, new) ELSE issued
        /\ outcome' = Outcome("update", t, old.id, new, res)
        /\ SessionUnchanged

Delete(t, old) ==
    LET res == Run(DeleteRow(db, t, old.id))
    IN  /\ db' = res.db
        /\ issued' = issued
        /\ outcome' = Outcome("delete", t, old.id, old, res)
        /\ SessionUnchanged

\* Candidate values of a reference column: the identifiers max rows of the
\* table can have, and one more (a row that does not exist).
RefInputs(max) == 1..(max + 1)

\* The audit columns: created_by as given, updated_by empty until an update.
Audit(row, by) == row @@ [created_by |-> by, updated_by |-> NULL]

New(t, row, by) == Audit([id |-> FreshId(issued, t)] @@ row, by)

\* Table t has had fewer than max rows, the deleted ones counted: a bound on
\* the identifiers the table uses up, hence on its size.
Room(t, max) == issued[t] < max

InsertUser(max, emails, roles, auditors) ==
    /\ Room("users", max)
    /\ \E e \in emails, r \in roles, by \in auditors :
         Insert("users", New("users", [email |-> e, role |-> r], by))

UpdateUser(roles, auditors) ==
    \E old \in db["users"], r \in roles, by \in auditors :
        Update("users", old, [old EXCEPT !.role = r, !.updated_by = by])

\* UPDATE users SET id = ... : the key other rows refer to.
UpdateUserId(keys) ==
    \E old \in db["users"], k \in keys :
        /\ k # old.id
        /\ Update("users", old, [old EXCEPT !.id = k])

DeleteUser == \E old \in db["users"] : Delete("users", old)

InsertSpecialist(max, users, auditors) ==
    /\ Room("specialists", max)
    /\ \E u \in users, by \in auditors :
         Insert("specialists", New("specialists", [user_id |-> u], by))

DeleteSpecialist == \E old \in db["specialists"] : Delete("specialists", old)

InsertPatient(max, users, auditors) ==
    /\ Room("patients", max)
    /\ \E u \in users, by \in auditors :
         Insert("patients", New("patients", [user_id |-> u], by))

DeletePatient == \E old \in db["patients"] : Delete("patients", old)

InsertFamilyMember(max, users, patients, auditors) ==
    /\ Room("family_members", max)
    /\ \E u \in users, p \in patients, by \in auditors :
         Insert("family_members",
                New("family_members", [user_id |-> u, patient_id |-> p], by))

\* status is left to its default 'Pending' unless given.
InsertAppointment(max, specialists, patients, starts, ends, statuses, auditors) ==
    /\ Room("appointments", max)
    /\ \E s \in specialists, p \in patients, a \in starts, b \in ends,
          st \in statuses, by \in auditors :
         Insert("appointments",
                New("appointments",
                    [specialist_id |-> s, patient_id |-> p, start_datetime |-> a,
                     end_datetime |-> b, status |-> st], by))

UpdateAppointment(times, statuses) ==
    \E old \in db["appointments"], a \in times, b \in times, st \in statuses :
        Update("appointments", old,
               [old EXCEPT !.start_datetime = a, !.end_datetime = b, !.status = st])

InsertAvailabilityBlock(max, specialists, days, starts, ends, auditors) ==
    /\ Room("availability_blocks", max)
    /\ \E s \in specialists, day \in days, a \in starts, b \in ends, by \in auditors :
         Insert("availability_blocks",
                New("availability_blocks",
                    [specialist_id |-> s, day_of_week |-> day, start_time |-> a,
                     end_time |-> b], by))

UpdateAvailabilityBlock(days, times) ==
    \E old \in db["availability_blocks"], day \in days, a \in times, b \in times :
        Update("availability_blocks", old,
               [old EXCEPT !.day_of_week = day, !.start_time = a, !.end_time = b])

InsertMedicalRecord(max, patients, specialists, auditors) ==
    /\ Room("medical_records", max)
    /\ \E p \in patients, s \in specialists, by \in auditors :
         Insert("medical_records",
                New("medical_records", [patient_id |-> p, specialist_id |-> s], by))

InsertTemplate(max, specialists, contents, auditors) ==
    /\ Room("templates", max)
    /\ \E s \in specialists, c \in contents, by \in auditors :
         Insert("templates", New("templates", [specialist_id |-> s, content |-> c], by))

InsertEducationalMaterial(max, specialists, titles, auditors) ==
    /\ Room("educational_materials", max)
    /\ \E s \in specialists, ti \in titles, by \in auditors :
         Insert("educational_materials",
                New("educational_materials", [title |-> ti, specialist_id |-> s], by))

InsertAssignment(max, patients, materials, auditors) ==
    /\ Room("patient_material_assignments", max)
    /\ \E p \in patients, m \in materials, by \in auditors :
         Insert("patient_material_assignments",
                New("patient_material_assignments",
                    [patient_id |-> p, material_id |-> m], by))

InsertNotification(max, users) ==
    /\ Room("notifications", max)
    /\ \E u \in users :
         Insert("notifications",
                [id |-> FreshId(issued, "notifications"), user_id |-> u])

InsertAuditLog(max, users, actions) ==
    /\ Room("audit_logs", max)
    /\ \E u \in users, a \in actions :
         Insert("audit_logs",
                [id |-> FreshId(issued, "audit_logs"), action |-> a, user_id |-> u])

-----------------------------------------------------------------------------
(* The module and its tables *)

\* A step of the module or of its helpers, as the last thing that happened.
Did(op, err) == Outcome(op, "none", NULL, [id |-> NULL], Refused(db, err))

\* What the import of the module ends with: the class bodies run top to
\* bottom, and the first exception ends the import; nothing of the module
\* exists then, create_tables and create_sample_data included.
Imported(callable, truth) ==
    IF ~callable THEN "TypeError_line_136"
    ELSE IF truth = "raise" THEN "TypeError_line_212"
    ELSE "ok"

\* import of the models module
Import ==
    /\ module = "unloaded"
    /\ \E callable \in ColumnCallables, truth \in ClauseBooleans :
         LET err == Imported(callable, truth)
         IN  /\ module' = IF err = "ok" THEN "loaded" ELSE "failed"
             /\ outcome' = Did("import", err)
    /\ UNCHANGED <<db, pc, pending, needsRollback, ids, fault, runs, created, issued,
                   mappers>>

\* No call of create_sample_data is under way.
SeederAtRest == pc \in {"idle", "done", "failed"}

\* create_tables(engine): Base.metadata.create_all makes the tables that
\* are missing and leaves the others, rows included, as they are.
CreateTables ==
    /\ module = "loaded" /\ SeederAtRest
    /\ created' = TRUE
    /\ outcome' = Did("create_tables", "ok")
    /\ UNCHANGED <<db, pc, pending, needsRollback, ids, fault, runs, module, issued,
                   mappers>>

\* drop_tables(engine): Base.metadata.drop_all removes every table with its
\* rows.
DropTables ==
    /\ module = "loaded" /\ SeederAtRest
    /\ created' = FALSE
    /\ db' = EmptyStore
    /\ outcome' = Did("drop_tables", "ok")
    /\ UNCHANGED <<pc, pending, needsRollback, ids, fault, runs, module, issued, mappers>>

-----------------------------------------------------------------------------
(* create_sample_data(session) *)

\* The objects the seeder builds, as it fills them in.
AdminUser == [email |-> "admin@medicalcenter.com", role |-> "Admin"]
SpecialistUser == [email |-> "sarah.johnson@medicalcenter.com", role |-> "Specialist"]
PatientUser == [email |-> "john.doe@email.com", role |-> "Patient"]

Object(name, t, row) == [obj |-> name, table |-> t, row |-> row]

\* What can go wrong in a run besides a constraint: generate_password_hash
\* raising on one of its three calls, or the read of an expired user's id
\* after the first commit failing in the store.
Faults == {"none", "hash_admin", "hash_specialist", "hash_patient",
           "refresh_specialist_user", "refresh_patient_user"}

\* What the first User(...) of the process finds when it configures the
\* mappers, and every User(...) after it finds again.  User.specialist,
\* User.patient and User.family_member (lines 46-48) name no foreign_keys
\* although three foreign keys lead from each of those tables to users:
\* SQLAlchemy refuses the mapping (AmbiguousForeignKeysError); a library that
\* does not check it goes on.
MapperConfigurations == {"refused", "configured"}

NoIds == [o \in {"specialist_user", "patient_user"} |-> NULL]

\* The exception leaves create_sample_data: nothing catches it, nothing is
\* rolled back.
Raised(what) ==
    /\ pc' = "failed"
    /\ outcome' = Outcome(pc, "none", NULL, [id |-> NULL], Refused(db, what))
    /\ UNCHANGED <<db, pending, needsRollback, ids, fault, runs, module, created, issued>>

Raise(what) == Raised(what) /\ UNCHANGED mappers

\* session.add(obj)
Added(object, next) ==
    /\ pending' = Append(pending, object)
    /\ pc' = next
    /\ outcome' = Outcome(pc, object.table, NULL, [id |-> NULL], Refused(db, "ok"))
    /\ UNCHANGED <<db, needsRollback, ids, fault, runs, module, created, issued>>

\* obj = Model(...); session.add(obj).  Building the first object of the
\* process configures the mappers; where that is refused, this and every
\* later Model(...) raises.
Add(object, next) ==
    \E m \in (IF mappers = "unconfigured" THEN MapperConfigurations ELSE {mappers}) :
        /\ mappers' = m
        /\ IF m = "refused" THEN Raised("mapper_error") ELSE Added(object, next)

\* The unit of work writes parents before children, and the rows of one
\* table in the order they were added.
FlushOrder(objects) ==
    SelectSeq(objects, LAMBDA o : o.table = "users")
        \o SelectSeq(objects, LAMBDA o : o.table = "specialists")
        \o SelectSeq(objects, LAMBDA o : o.table = "patients")

\* The flush: each pending object INSERTed with a fresh id, until one fails.
\* assigned: object name -> the id its row got; n: the identifiers so far.
RECURSIVE Flush(_, _, _, _)
Flush(d, objects, assigned, n) ==
    IF objects = <<>> THEN [db |-> d, err |-> "ok", assigned |-> assigned, issued |-> n]
    ELSE LET o == Head(objects)
             row == Audit([id |-> FreshId(n, o.table)] @@ o.row, NULL)
             res == InsertRow(d, o.table, row)
         IN  IF res.err # "ok"
             THEN [db |-> d, err |-> res.err, assigned |-> assigned, issued |-> n]
             ELSE Flush(res.db, Tail(objects),
                        [x \in DOMAIN assigned \cup {o.obj} |->
                            IF x = o.obj THEN row.id ELSE assigned[x]],
                        Issued(n, o.table, row))

\* session.commit(): the pending objects are flushed in one transaction.  If
\* an INSERT fails the transaction is rolled back and the pending objects
\* are expunged, and the session refuses further commits until its owner
\* calls rollback(); the seeder never does.
Commit(next) ==
    IF needsRollback
    THEN Raise("pending_rollback")
    ELSE LET res == IF created \/ pending = <<>>
                    THEN Flush(db, FlushOrder(pending), <<>>, issued)
                    ELSE [db |-> db, err |-> "no_such_table", assigned |-> <<>>,
                          issued |-> issued]
         IN  IF res.err = "ok"
             THEN /\ db' = res.db
                  /\ issued' = res.issued
                  /\ pending' = <<>>
                  /\ ids' = [o \in DOMAIN ids |->
                               IF o \in DOMAIN res.assigned THEN res.assigned[o] ELSE ids[o]]
                  /\ pc' = next
                  /\ outcome' = Outcome(pc, "none", NULL, [id |-> NULL], Refused(db, "ok"))
                  /\ UNCHANGED <<needsRollback, fault, runs, module, created, mappers>>
             ELSE /\ pending' = <<>>
                  /\ needsRollback' = TRUE
                  /\ pc' = "failed"
                  /\ outcome' = Outcome(pc, "none", NULL, [id |-> NULL], Refused(db, res.err))
                  /\ UNCHANGED <<db, ids, fault, runs, module, created, issued, mappers>>

\* create_sample_data(session) is called.
SeedCall ==
    /\ module = "loaded"
    /\ pc \in {"idle", "done", "failed"}
    /\ runs < MaxRuns
    /\ runs' = runs + 1
    /\ \E f \in Faults : fault' = f
    /\ ids' = NoIds
    /\ pc' = "add_admin_user"
    /\ UNCHANGED <<db, outcome, pending, needsRollback, module, created, issued, mappers>>

\* admin_user = User(...); session.add(admin_user)
SeedAddAdminUser ==
    /\ pc = "add_admin_user"
    /\ IF fault = "hash_admin" THEN Raise("hash_error")
       ELSE Add(Object("admin_user", "users", AdminUser), "add_specialist_user")

\* specialist_user = User(...); session.add(specialist_user)
SeedAddSpecialistUser ==
    /\ pc = "add_specialist_user"
    /\ IF fault = "hash_specialist" THEN Raise("hash_error")
       ELSE Add(Object("specialist_user", "users", SpecialistUser), "add_patient_user")

\* patient_user = User(...); session.add(patient_user)
SeedAddPatientUser ==
    /\ pc = "add_patient_user"
    /\ IF fault = "hash_patient" THEN Raise("hash_error")
       ELSE Add(Object("patient_user", "users", PatientUser), "commit_users")

\* session.commit(), the first
SeedCommitUsers ==
    /\ pc = "commit_users"
    /\ Commit("add_specialist")

\* specialist = Specialist(user_id=specialist_user.id, ...); session.add(specialist)
SeedAddSpecialist ==
    /\ pc = "add_specialist"
    /\ IF fault = "refresh_specialist_user" THEN Raise("storage_error")
       ELSE Add(Object("specialist", "specialists", [user_id |-> ids["specialist_user"]]),
                "add_patient")

\* patient = Patient(user_id=patient_user.id, ...); session.add(patient)
SeedAddPatient ==
    /\ pc = "add_patient"
    /\ IF fault = "refresh_patient_user" THEN Raise("storage_error")
       ELSE Add(Object("patient", "patients", [user_id |-> ids["patient_user"]]),
                "commit_profiles")

\* session.commit(), the second
SeedCommitProfiles ==
    /\ pc = "commit_profiles"
    /\ Commit("done")

-----------------------------------------------------------------------------
(* Specifications *)

Init ==
    /\ db = EmptyStore
    /\ outcome = Outcome("none", "none", NULL, [id |-> NULL], Refused(EmptyStore, "ok"))
    /\ pc = "idle"
    /\ pending = <<>>
    /\ needsRollback = FALSE
    /\ ids = NoIds
    /\ fault = "none"
    /\ runs = 0
    /\ module = "unloaded"
    /\ created = FALSE
    /\ issued = NoneIssued
    /\ mappers = "unconfigured"

Emails == {"a@x.com", "b@x.com"}

\* Scheduling: the appointments of a specialist with a patient.
AppointmentNext ==
    \/ Import
    \/ CreateTables
    \/ DropTables
    \/ InsertUser(MaxUsers, {"a@x.com"}, {"Patient"}, {NULL})
    \/ InsertSpecialist(MaxUsers, Ids(db, "users"), {NULL})
    \/ InsertPatient(MaxUsers, Ids(db, "users"), {NULL})
    \/ InsertAppointment(MaxAppointments, Ids(db, "specialists"), Ids(db, "patients"),
                         Times, Times, {"Pending", "Done"}, {NULL})
    \/ UpdateAppointment(Times, {"Confirmed"})

AppointmentSpec == Init /\ [][AppointmentNext]_vars

\* day_of_week as a client may send it: both ends of 1..7, and just outside.
DayInputs == {-1, 0, 1, 7, 8}

\* Scheduling: the weekly availability of a specialist.
AvailabilityNext ==
    \/ Import
    \/ CreateTables
    \/ DropTables
    \/ InsertUser(MaxUsers, {"a@x.com"}, {"Specialist"}, {NULL})
    \/ InsertSpecialist(MaxUsers, Ids(db, "users"), {NULL})
    \/ InsertAvailabilityBlock(MaxBlocks, Ids(db, "specialists"), DayInputs, Times, Times,
                               {NULL})
    \/ UpdateAvailabilityBlock(DayInputs, Times)

AvailabilitySpec == Init /\ [][AvailabilityNext]_vars

\* Accounts: users and their roles.
UserNext ==
    \/ Import
    \/ CreateTables
    \/ DropTables
    \/ InsertUser(MaxUsers, Emails, {"Admin", "Patient", "Doctor"}, {NULL})
    \/ UpdateUser({"Specialist", "FamilyMember", "Doctor", "admin"}, {NULL})

UserSpec == Init /\ [][UserNext]_vars

\* Sub-profiles: the specialist, patient and family-member rows of users.
ProfileNext ==
    \/ Import
    \/ CreateTables
    \/ DropTables
    \/ InsertUser(MaxUsers, Emails, {"Patient"}, {NULL})
    \/ InsertSpecialist(MaxUsers, Ids(db, "users"), {NULL})
    \/ InsertPatient(MaxUsers, Ids(db, "users"), {NULL})
    \/ InsertFamilyMember(MaxJoins, Ids(db, "users"), Ids(db, "patients"), {NULL})

ProfileSpec == Init /\ [][ProfileNext]_vars

\* Join entities: family members of patients, materials assigned to patients.
JoinNext ==
    \/ Import
    \/ CreateTables
    \/ DropTables
    \/ InsertUser(MaxUsers, Emails, {"Patient"}, {NULL})
    \/ InsertPatient(MaxUsers, Ids(db, "users"), {NULL})
    \/ InsertFamilyMember(MaxJoins, Ids(db, "users"), Ids(db, "patients"), {NULL})
    \/ InsertEducationalMaterial(MaxMaterials, {NULL}, {"Stretching"}, {NULL})
    \/ InsertAssignment(MaxJoins, Ids(db, "patients"), Ids(db, "educational_materials"), {NULL})

JoinSpec == Init /\ [][JoinNext]_vars

\* A patient's dependents, and the deletion of patients.
PatientDeleteNext ==
    \/ Import
    \/ CreateTables
    \/ DropTables
    \/ InsertUser(MaxUsers, Emails, {"Patient"}, {NULL})
    \/ InsertSpecialist(MaxOwned, Ids(db, "users"), {NULL})
    \/ InsertPatient(MaxUsers, Ids(db, "users"), {NULL})
    \/ InsertFamilyMember(MaxOwned, Ids(db, "users"), Ids(db, "patients"), {NULL})
    \/ InsertAppointment(MaxOwned, Ids(db, "specialists"), Ids(db, "patients"),
                         {0}, {1}, {"Pending"}, {NULL})
    \/ InsertMedicalRecord(MaxOwned, Ids(db, "patients"), Ids(db, "specialists"), {NULL})
    \/ InsertEducationalMaterial(MaxOwned, {NULL}, {"Stretching"}, {NULL})
    \/ InsertAssignment(MaxOwned, Ids(db, "patients"), Ids(db, "educational_materials"),
                        {NULL})
    \/ DeletePatient

PatientDeleteSpec == Init /\ [][PatientDeleteNext]_vars

\* A specialist's dependents, and the deletion of specialists.
SpecialistDeleteNext ==
    \/ Import
    \/ CreateTables
    \/ DropTables
    \/ InsertUser(MaxUsers, Emails, {"Specialist"}, {NULL})
    \/ InsertSpecialist(MaxUsers, Ids(db, "users"), {NULL})
    \/ InsertPatient(MaxOwned, Ids(db, "users"), {NULL})
    \/ InsertAppointment(MaxOwned, Ids(db, "specialists"), Ids(db, "patients"),
                         {0}, {1}, {"Pending"}, {NULL})
    \/ InsertAvailabilityBlock(MaxOwned, Ids(db, "specialists"), {1}, {0}, {1}, {NULL})
    \/ InsertMedicalRecord(MaxOwned, Ids(db, "patients"), Ids(db, "specialists"), {NULL})
    \/ InsertTemplate(MaxOwned, {NULL} \cup Ids(db, "specialists"), {"Intake form"}, {NULL})
    \/ InsertEducationalMaterial(MaxOwned, {NULL} \cup Ids(db, "specialists"),
                                 {"Stretching"}, {NULL})
    \/ DeleteSpecialist

SpecialistDeleteSpec == Init /\ [][SpecialistDeleteNext]_vars

\* Audit attribution: rows that name users in created_by, updated_by and
\* audit_logs.user_id, and the deletion and re-keying of those users.
ReferenceNext ==
    \/ Import
    \/ CreateTables
    \/ DropTables
    \/ InsertUser(MaxUsers, Emails, {"Admin"}, {NULL} \cup RefInputs(MaxUsers))
    \/ UpdateUser({"Admin"}, Ids(db, "users"))
    \/ UpdateUserId(1..MaxUsers)
    \/ DeleteUser
    \/ InsertSpecialist(MaxOwned, Ids(db, "users"), {NULL} \cup Ids(db, "users"))
    \/ DeleteSpecialist
    \/ InsertAuditLog(MaxOwned, {NULL} \cup RefInputs(MaxUsers), {"INSERT"})

ReferenceSpec == Init /\ [][ReferenceNext]_vars

\* A user's sub-profiles and what hangs on them, and the deletion of users.
\* Notifications go to the first user, family-member access and authorship
\* of the specialist row to the second; profiles belong to either.
UserDeleteNext ==
    \/ Import
    \/ CreateTables
    \/ DropTables
    \/ InsertUser(MaxUsers, Emails, {"Specialist"}, {NULL})
    \/ InsertSpecialist(MaxOwned, Ids(db, "users"), {NULL, 2})
    \/ InsertPatient(MaxOwned, Ids(db, "users"), {NULL})
    \/ InsertFamilyMember(MaxOwned, {2}, Ids(db, "patients"), {NULL})
    \/ InsertNotification(MaxOwned, {1})
    \/ InsertAppointment(MaxOwned, Ids(db, "specialists"), Ids(db, "patients"),
                         {0}, {1}, {"Pending"}, {NULL})
    \/ InsertAvailabilityBlock(MaxOwned, Ids(db, "specialists"), {1}, {0}, {1}, {NULL})
    \/ InsertMedicalRecord(MaxOwned, Ids(db, "patients"), Ids(db, "specialists"), {NULL})
    \/ InsertTemplate(MaxOwned, Ids(db, "specialists"), {"Intake form"}, {NULL})
    \/ InsertEducationalMaterial(MaxOwned, Ids(db, "specialists"), {"Stretching"}, {NULL})
    \/ InsertAssignment(MaxOwned, Ids(db, "patients"), Ids(db, "educational_materials"),
                        {NULL})
    \/ DeleteUser

UserDeleteSpec == Init /\ [][UserDeleteNext]_vars

\* The seeder, called again and again with the same session.
SeedNext ==
    \/ Import
    \/ CreateTables
    \/ DropTables
    \/ SeedCall
    \/ SeedAddAdminUser
    \/ SeedAddSpecialistUser
    \/ SeedAddPatientUser
    \/ SeedCommitUsers
    \/ SeedAddSpecialist
    \/ SeedAddPatient
    \/ SeedCommitProfiles

SeedSpec == Init /\ [][SeedNext]_vars

-----------------------------------------------------------------------------
(* Properties *)

Failed == outcome.err # "ok"

\* A failed statement leaves the store as it was.
FailureIsAtomic == outcome'.err # "ok" => db' = db

\* The statement of this step wrote (or tried to write) a row of table t.
Wrote(t) == outcome'.op \in {"insert", "update"} /\ outcome'.table = t

AppointmentTimesValid ==
    \A a \in db["appointments"] : a.end_datetime > a.start_datetime

C1_Step ==
    /\ FailureIsAtomic
    /\ Wrote("appointments") /\ outcome'.row.end_datetime <= outcome'.row.start_datetime
         => /\ outcome'.err \in {"valid_appointment_time", "valid_appointment_status"}
            /\ outcome'.row.status \in AppointmentStatuses
                 => outcome'.err = "valid_appointment_time"
            /\ db' = db

\* C1: every stored appointment has end_datetime > start_datetime, and an
\* insert or update of an appointment with end_datetime <= start_datetime
\* fails on a CHECK constraint (valid_appointment_time when nothing else is
\* wrong with the row) and leaves the store unchanged.
C1_AppointmentEndsAfterStart == []AppointmentTimesValid /\ [][C1_Step]_vars

\* An update that would empty an appointment's interval was refused.
C1_Witness ==
    /\ outcome.op = "update" /\ outcome.table = "appointments"
    /\ outcome.err = "valid_appointment_time"
    /\ outcome.row.end_datetime = outcome.row.start_datetime
    /\ \E a \in db["appointments"] : a.id = outcome.row.id /\ a.end_datetime > a.start_datetime

\* C2: every stored availability block has end_time > start_time and a
\* day_of_week in 1..7.
C2_BlocksInRange ==
    \A b \in db["availability_blocks"] :
        b.end_time > b.start_time /\ b.day_of_week >= 1 /\ b.day_of_week <= 7

\* C5: no two specialists, no two patients and no two family members share a
\* user_id.
C5_OneSubProfilePerUser ==
    \A t \in {"specialists", "patients", "family_members"} :
        \A r \in db[t], q \in db[t] : r.user_id = q.user_id => r = q

SamePair(t, r, q) ==
    IF t = "family_members"
    THEN r.user_id = q.user_id /\ r.patient_id = q.patient_id
    ELSE r.patient_id = q.patient_id /\ r.material_id = q.material_id

PairConstraint(t) ==
    IF t = "family_members" THEN "unique_user_patient" ELSE "unique_patient_material"

C6_Step ==
    \A t \in {"family_members", "patient_material_assignments"} :
        outcome'.op = "insert" /\ outcome'.table = t =>
            IF \E q \in db[t] : SamePair(t, outcome'.row, q)
            THEN outcome'.err = PairConstraint(t) /\ db' = db
            ELSE outcome'.err = "ok" /\ db' = [db EXCEPT ![t] = @ \cup {outcome'.row}]

\* C6: an insert of a family member (of an assignment) whose pair
\* (user_id, patient_id) (whose pair (patient_id, material_id)) is already
\* stored fails with the pair's uniqueness violation and leaves the store
\* unchanged; with a pair that differs in either component the row is stored.
C6_JoinPairsUnique == [][C6_Step]_vars

\* Two family members that share their user and differ in their patient are
\* stored side by side, and an assignment repeating a stored pair was refused.
C6_Witness ==
    /\ outcome.err = "unique_patient_material"
    /\ \E a \in db["patient_material_assignments"] :
          a.patient_id = outcome.row.patient_id /\ a.material_id = outcome.row.material_id
    /\ \E f \in db["family_members"], g \in db["family_members"] :
          f.user_id = g.user_id /\ f.patient_id # g.patient_id

\* The statement of this step deleted (or tried to delete) a row of table t.
Deleted(t) == outcome'.op = "delete" /\ outcome'.table = t

PatientOwned ==
    {"family_members", "appointments", "medical_records", "patient_material_assignments"}

C3_Step ==
    Deleted("patients") =>
        /\ outcome'.err = "ok"
        /\ db'["patients"] = db["patients"] \ {outcome'.row}
        /\ \A t \in PatientOwned :
              db'[t] = { r \in db[t] : r.patient_id # outcome'.row.id }
        /\ \A t \in Tables \ (PatientOwned \cup {"patients"}) : db'[t] = db[t]

\* C3: deleting a patient removes that row and exactly the family members,
\* appointments, medical records and material assignments whose patient_id
\* is the patient; every other row of every table (other patients' rows,
\* specialists, materials, users) stays as it was.
C3_PatientDeleteCascades == [][C3_Step]_vars

\* A patient was deleted with a dependent in each of the four tables, while
\* another patient, both users, the specialist and the material are stored.
C3_Witness ==
    /\ outcome.op = "delete" /\ outcome.table = "patients" /\ outcome.err = "ok"
    /\ \A t \in PatientOwned : \E x \in outcome.removed : x[1] = t
    /\ db["patients"] # {}
    /\ Cardinality(db["users"]) = 2
    /\ db["specialists"] # {} /\ db["educational_materials"] # {}

SpecialistOwned == {"appointments", "availability_blocks", "medical_records"}

SpecialistAttributed == {"templates", "educational_materials"}

C4_Step ==
    Deleted("specialists") =>
        /\ outcome'.err = "ok"
        /\ db'["specialists"] = db["specialists"] \ {outcome'.row}
        /\ \A t \in SpecialistAttributed :
              db'[t] = { IF r.specialist_id = outcome'.row.id
                         THEN [r EXCEPT !.specialist_id = NULL] ELSE r : r \in db[t] }
        /\ \A t \in SpecialistOwned :
              db'[t] = { r \in db[t] : r.specialist_id # outcome'.row.id }
        /\ \A t \in Tables \ (SpecialistOwned \cup SpecialistAttributed \cup {"specialists"}) :
              db'[t] = db[t]

\* C4: deleting a specialist keeps every template and educational material
\* that referred to it, unchanged but for specialist_id, which becomes null,
\* and removes the specialist's appointments, availability blocks and
\* medical records; nothing else changes.
C4_SpecialistDeleteNulls == [][C4_Step]_vars

\* A specialist was deleted that a template and a material referred to, and
\* that had an appointment, an availability block and a medical record: the
\* template and the material are stored with a null specialist_id.
C4_Witness ==
    /\ outcome.op = "delete" /\ outcome.table = "specialists" /\ outcome.err = "ok"
    /\ \A t \in SpecialistOwned : \E x \in outcome.removed : x[1] = t
    /\ \A t \in SpecialistAttributed :
          \E x \in outcome.nulled, r \in db[t] :
              x[1] = t /\ r.id = x[2] /\ r.specialist_id = NULL
    /\ \E r \in db["templates"] : r.content = "Intake form"

\* Every foreign-key column that is set names a stored row.
ReferentialIntegrity ==
    \A fk \in ForeignKeys : \A r \in db[fk.table] :
        r[fk.column] # NULL => \E p \in db[fk.ref] : p.id = r[fk.column]

\* The statement of this step changed (or tried to change) the key of a user.
Rekeyed ==
    outcome'.op = "update" /\ outcome'.table = "users" /\ outcome'.row.id # outcome'.key

\* The rows of store d that name user u in created_by, updated_by or
\* audit_logs.user_id, as pairs <<table, id>>.
Attributions(d, u) ==
    UNION { { <<t, r.id>> : r \in { x \in d[t] : x.created_by = u \/ x.updated_by = u } } :
            t \in AuditedTables }
    \cup { <<"audit_logs", r.id>> : r \in { x \in d["audit_logs"] : x.user_id = u } }

C7_ClaimedStep ==
    (Deleted("users") \/ Rekeyed)
        /\ (\E x \in Attributions(db, outcome'.key) : x[1] # "users")
    => outcome'.err # "ok" /\ db' = db

\* C7 as claimed: deleting a user, or changing its key, while a row of
\* another table names it in created_by, updated_by or audit_logs.user_id
\* fails and leaves the store unchanged; and every foreign key that is set
\* names a stored row.
C7_ReferencedRowsKept == []ReferentialIntegrity /\ [][C7_ClaimedStep]_vars

\* The rows removed together with user u: the user, its sub-profiles, and
\* what belongs to those, as pairs <<table, id>>.
RemovedWithUser(d, u) ==
    LET S == { r.id : r \in { x \in d["specialists"] : x.user_id = u } }
        P == { r.id : r \in { x \in d["patients"] : x.user_id = u } }
        of(t, keep(_)) == { <<t, r.id>> : r \in { x \in d[t] : keep(x) } }
    IN  {<<"users", u>>}
        \cup { <<"specialists", i>> : i \in S } \cup { <<"patients", i>> : i \in P }
        \cup of("family_members", LAMBDA x : x.user_id = u \/ x.patient_id \in P)
        \cup of("notifications", LAMBDA x : x.user_id = u)
        \cup of("appointments", LAMBDA x : x.specialist_id \in S \/ x.patient_id \in P)
        \cup of("availability_blocks", LAMBDA x : x.specialist_id \in S)
        \cup of("medical_records", LAMBDA x : x.specialist_id \in S \/ x.patient_id \in P)
        \cup of("patient_material_assignments", LAMBDA x : x.patient_id \in P)

C7_Step ==
    /\ FailureIsAtomic
    /\ Deleted("users") =>
         IF Attributions(db, outcome'.key) \subseteq RemovedWithUser(db, outcome'.key)
         THEN outcome'.err = "ok" /\ outcome'.row \notin db'["users"]
         ELSE outcome'.err = "foreign_key" /\ db' = db
    /\ Rekeyed /\ (\E fk \in ForeignKeys : \E r \in db[fk.table] :
                      fk.ref = "users" /\ r[fk.column] = outcome'.key)
         => outcome'.err # "ok" /\ db' = db

\* C7, amended: a delete of a user fails, leaving the store unchanged,
\* exactly when a row that is not removed together with the user names it in
\* created_by, updated_by or audit_logs.user_id; a change of the key of a
\* user that any row refers to fails likewise; and in every state every
\* foreign key that is set names a stored row.
C7_NoDanglingReference == []ReferentialIntegrity /\ [][C7_Step]_vars

\* The delete of a user was refused because the profile of another user
\* names it in created_by; the profile and the user are stored.
C7_Witness ==
    /\ outcome.op = "delete" /\ outcome.table = "users" /\ outcome.err = "foreign_key"
    /\ \E r \in db["specialists"] : r.created_by = outcome.key /\ r.user_id # outcome.key
    /\ \E u \in db["users"] : u.id = outcome.key

\* The first commit of the current run has succeeded.
UsersCommitted == ids["specialist_user"] # NULL

\* C8: a run that fails leaves no pending object in the session; a first run
\* that fails before its first commit succeeds leaves the store empty, one
\* that fails later leaves the three users and no sub-profile.
C8_FailedBatchRolledBack ==
    pc = "failed" /\ Failed =>
        /\ pending = <<>>
        /\ runs = 1 =>
             IF UsersCommitted
             THEN /\ Cardinality(db["users"]) = 3
                  /\ db["specialists"] = {} /\ db["patients"] = {}
             ELSE db = EmptyStore

\* The user row of store d that is object o with identifier i.
IsUser(r, o, i) == r = Audit([id |-> i] @@ o, NULL)

\* Store d is what a successful run on an empty store leaves: the three
\* users, a specialist row of the second and a patient row of the third,
\* and nothing else.
Seeded(d) ==
    \E a, b, c \in Ids(d, "users") :
        /\ \E r \in d["users"] : IsUser(r, AdminUser, a)
        /\ \E r \in d["users"] : IsUser(r, SpecialistUser, b)
        /\ \E r \in d["users"] : IsUser(r, PatientUser, c)
        /\ Cardinality(d["users"]) = 3
        /\ Cardinality(d["specialists"]) = 1 /\ Cardinality(d["patients"]) = 1
        /\ \A r \in d["specialists"] : r.user_id = b /\ r.created_by = NULL
        /\ \A r \in d["patients"] : r.user_id = c /\ r.created_by = NULL
        /\ \A t \in Tables \ {"users", "specialists", "patients"} : d[t] = {}

SeededStore == Seeded(db)

\* The step is one of create_sample_data: its call, or a statement of it.
SeederStep == runs' # runs \/ ~SeederAtRest

C9_Step ==
    /\ pc # "done" /\ pc' = "done" => Seeded(db')
    /\ SeededStore /\ SeederStep =>
          /\ db' = db
          /\ pc' # "done"
          /\ pc = "commit_users" =>
                /\ pc' = "failed"
                /\ ~needsRollback => outcome'.err = "users_email_key"

\* C9: a run that completes leaves the three users, one specialist and one
\* patient; on that store a further run never completes and never changes
\* the store; its first commit fails, with the unique-email violation on
\* users (in a session that an earlier failed commit left un-rolled-back,
\* with that session's refusal to commit).
C9_SecondSeedFails == [][C9_Step]_vars

\* The second run, after a successful first, failed at its first commit on
\* the unique email, and the store is the first run's.
C9_Witness ==
    /\ runs = 2 /\ pc = "failed" /\ fault = "none"
    /\ outcome.op = "commit_users" /\ outcome.err = "users_email_key"
    /\ SeededStore /\ pending = <<>>

UserRolesValid == \A u \in db["users"] : u.role \in UserRoles

C10_Step ==
    /\ FailureIsAtomic
    /\ Wrote("users") /\ outcome'.row.role \notin UserRoles
         => /\ outcome'.err = IF created THEN "valid_user_role" ELSE "no_such_table"
            /\ db' = db

\* C10: every stored user has a role in {Admin, Specialist, Patient,
\* FamilyMember}; an insert or update of a user with any other role fails
\* (on valid_user_role where the table exists) and leaves the store
\* unchanged.
C10_RolesClosed == []UserRolesValid /\ [][C10_Step]_vars

\* An update of a stored user to the role "Doctor" was refused.
C10_Witness ==
    /\ outcome.op = "update" /\ outcome.table = "users"
    /\ outcome.row.role = "Doctor" /\ outcome.err = "valid_user_role"
    /\ \E u \in db["users"] : u.id = outcome.row.id /\ u.role \in UserRoles

\* The tables whose rows keep their place when the specialist they name is
\* deleted.
SpecialistNulled == {"templates", "educational_materials"}

\* Row r of a table of SpecialistNulled once the specialists S are deleted.
Detached(r, S) ==
    IF r.specialist_id \in S THEN [r EXCEPT !.specialist_id = NULL] ELSE r

C11_Step ==
    Deleted("users") /\ Attributions(db, outcome'.key) = {} =>
        LET u == outcome'.key
            gone == RemovedWithUser(db, u)
            S == { x[2] : x \in { y \in gone : y[1] = "specialists" } }
            P == { x[2] : x \in { y \in gone : y[1] = "patients" } }
        IN  /\ outcome'.err = "ok"
            /\ \A t \in Tables \ SpecialistNulled :
                  db'[t] = { r \in db[t] : <<t, r.id>> \notin gone }
            /\ \A t \in SpecialistNulled :
                  db'[t] = { Detached(r, S) : r \in db[t] }
            /\ \A fk \in ForeignKeys : \A r \in db'[fk.table] :
                  /\ fk.ref = "users" => r[fk.column] # u
                  /\ fk.ref = "specialists" => r[fk.column] \notin S
                  /\ fk.ref = "patients" => r[fk.column] \notin P

\* C11: deleting a user that no row names in created_by, updated_by or
\* audit_logs.user_id succeeds and removes the user, its specialist and
\* patient sub-profiles, its family-member rows and notifications, and the
\* appointments, availability blocks, medical records, family members and
\* material assignments of those sub-profiles; templates and educational
\* materials of the specialist stay with specialist_id nulled; every other
\* row stays as it was, and no row left refers to the user or its
\* sub-profiles.
C11_UserDeleteCascades == [][C11_Step]_vars

\* A user was deleted together with its specialist and patient profiles; an
\* appointment of theirs went with them, a template stays without its
\* specialist, and another user is still stored.
C11_Witness ==
    /\ outcome.op = "delete" /\ outcome.table = "users" /\ outcome.err = "ok"
    /\ \E x \in outcome.removed : x[1] = "specialists"
    /\ \E x \in outcome.removed : x[1] = "patients"
    /\ \E x \in outcome.removed : x[1] = "appointments"
    /\ \E x \in outcome.nulled : x[1] = "templates"
    /\ \E r \in db["templates"] : r.specialist_id = NULL
    /\ db["users"] # {}

====
